---- MODULE Spec2Model ----
(***************************************************************************)
(* Model of the two program generators of gas-cost-estimator:              *)
(*   src/src/program_generator/pg_marginal.py   (isolation synthesizer)    *)
(*   src/src/program_generator/pg_validation.py (randomized synthesizer)   *)
(* Bytecode is a Python string of hexadecimal characters; it is modelled   *)
(* as a sequence of hexadecimal digits (numbers 0..15), so that len(),     *)
(* slicing and concatenation are those of the source.                      *)
(***************************************************************************)
EXTENDS Integers, Sequences, FiniteSets, TLC

VARIABLES
  \* ---- pg_marginal.ProgramGenerator._do_generate
  m_pc,             \* "start" | "gen" | "done" | "assert_failed"
  operations,       \* the operations selected by `opcode` (mnemonics)
  max_op_count,
  step_op_count,
  shuffle_counts,
  op_counts,        \* list(range(0, max_op_count + 1, step_op_count)), maybe shuffled
  m_next,           \* position of the list comprehension, 0-based
  programs          \* Program records built so far

mvars == <<m_pc, operations, max_op_count, step_op_count, shuffle_counts,
           op_counts, m_next, programs>>

VARIABLES
  \* ---- the random module: seeded by ProgramGenerator.__init__, shared by all calls
  rng_seed,         \* the seed given to random.seed
  rng_pos,          \* number of draws made since seeding
  tape,             \* per seed, the draws of its stream that are known so far
  \* ---- pg_validation.ProgramGenerator._generate_random_arithmetic
  v_pc,             \* "idle" | "call" | "loop" | "returned" | "raised"
  opsLimit,         \* 0 stands for None (both are false in the loop test)
  bytecodeLimit,    \* 0 stands for None
  dominant,         \* 0 stands for None
  pushMax,
  cleanStack,
  randomizePush,
  bytecode,
  ops_count,
  previous_nreturns,
  iters,            \* iterations of the while loop done by this call
  start_pos,        \* rng_pos when the call was entered
  \* ---- pg_validation.ProgramGenerator.generate
  g_pc,             \* "direct" | "idle" | "for" | "in_call"
  g_args,           \* the generate call in progress: its arguments, opsLimitMax, where it began
  g_i,              \* the index of its for loop
  g_programs,       \* the bytecodes of its programs list
  g_first,          \* TRUE when no generate call was made since random.seed
  history           \* the generate calls completed: seed, arguments, output

rvars == <<rng_seed, rng_pos, tape>>
vvars == <<v_pc, opsLimit, bytecodeLimit, dominant, pushMax, cleanStack, randomizePush,
           bytecode, ops_count, previous_nreturns, iters, start_pos>>
gvars == <<g_pc, g_args, g_i, g_programs, g_first, history>>

vars == <<mvars, rvars, vvars, gvars>>

(***************************************************************************)
(* Strings of hexadecimal characters                                       *)
(***************************************************************************)
HexChars == "0123456789abcdef"

\* the digit a hexadecimal character stands for
Nib(c) == CHOOSE n \in 0..15 : SubSeq(HexChars, n + 1, n + 1) = c

\* a Python hex string literal as a sequence of digits
H(s) == [i \in 1..Len(s) |-> Nib(SubSeq(s, i, i))]

\* Python's  s * k  (the empty string when k <= 0)
Rep(s, k) == IF k <= 0 THEN <<>>
             ELSE [i \in 1..(Len(s) * k) |-> s[((i - 1) % Len(s)) + 1]]

\* the value of a digit string read as a hexadecimal number
RECURSIVE HexVal(_)
HexVal(d) == IF d = <<>> THEN 0
             ELSE 16 * HexVal(SubSeq(d, 1, Len(d) - 1)) + d[Len(d)]

\* Python's  hex(n)[2:]  for n >= 0: no leading zeros, "0" for 0
RECURSIVE HexOf(_)
HexOf(n) == IF n < 16 THEN <<n>> ELSE HexOf(n \div 16) \o <<n % 16>>

(***************************************************************************)
(* The operation catalog (data/opcodes.csv, read by common.prepare_opcodes)*)
(* The rows are those of the EVM instruction set; 'Value' is the string    *)
(* "0x.." of the csv, 'Removed'/'Added' the two stack columns.             *)
(***************************************************************************)
Row(m, v, r, a) == [Mnemonic |-> m, Value |-> v, Removed |-> r, Added |-> a]

\* the rows the isolation synthesizer dispatches on
MarginalCatalog ==
  << Row("CREATE", "0xf0", 3, 1),
     Row("EXTCODEHASH", "0x3f", 1, 1),   Row("EXTCODESIZE", "0x3b", 1, 1),
     Row("EXTCODECOPY", "0x3c", 4, 0),
     Row("CALL", "0xf1", 7, 1),          Row("STATICCALL", "0xfa", 6, 1),
     Row("DELEGATECALL", "0xf4", 6, 1),
     Row("LOG0", "0xa0", 2, 0),          Row("LOG1", "0xa1", 3, 0),
     Row("LOG2", "0xa2", 4, 0),          Row("LOG3", "0xa3", 5, 0),
     Row("LOG4", "0xa4", 6, 0),
     Row("REVERT", "0xfd", 2, 0),        Row("RETURN", "0xf3", 2, 0),
     Row("MCOPY", "0x5e", 3, 0),         Row("KECCAK256", "0x20", 2, 1),
     Row("TLOAD", "0x5c", 1, 1),         Row("TLOAD_EXT", "0x5c", 1, 1),
     Row("TSTORE", "0x5d", 2, 0),        Row("TSTORE0", "0x5d", 2, 0),
     Row("TSTORE_EXT", "0x5d", 2, 0) >>

MarginalMnemonics == {MarginalCatalog[i].Mnemonic : i \in DOMAIN MarginalCatalog}

Operation(m) ==
  MarginalCatalog[CHOOSE i \in DOMAIN MarginalCatalog : MarginalCatalog[i].Mnemonic = m]

\* common.arity(operation)
arity(operation) == operation.Removed

\* operation['Value'][2:4], i.e. "5c" from "0x5c"
ValueHex(operation) == H(SubSeq(operation.Value, 3, 4))

\* stack columns of the instructions that only occur inside generated code
\* DUPn and SWAPn follow _fill_opcodes_push_dup_swap: DUPn n -> n+1, SWAPn n+1 -> n+1
DupRemoved(n) == n
DupAdded(n) == n + 1
SwapRemoved(n) == n + 1
SwapAdded(n) == n + 1

Removed(b) ==
  CASE b \in 128..143 -> DupRemoved(b - 127)
    [] b \in 144..159 -> SwapRemoved(b - 143)
    [] b \in 160..164 -> b - 158                      \* LOG0..LOG4
    [] b \in {1, 2, 3, 4, 5, 6, 7, 10, 11} -> 2       \* ADD..SMOD EXP SIGNEXTEND
    [] b \in {8, 9} -> 3                              \* ADDMOD MULMOD
    [] b \in {16, 17, 18, 19, 20, 22, 23, 24} -> 2    \* LT GT SLT SGT EQ AND OR XOR
    [] b \in {21, 25} -> 1                            \* ISZERO NOT
    [] b \in {26, 27, 28, 29} -> 2                    \* BYTE SHL SHR SAR
    [] b = 32 -> 2                                    \* KECCAK256
    [] b \in {59, 63} -> 1                            \* EXTCODESIZE EXTCODEHASH
    [] b = 60 -> 4                                    \* EXTCODECOPY
    [] b \in {80, 81, 92} -> 1                        \* POP MLOAD TLOAD
    [] b \in {82, 87, 93} -> 2                        \* MSTORE JUMPI TSTORE
    [] b = 94 -> 3                                    \* MCOPY
    [] b = 240 -> 3                                   \* CREATE
    [] b = 241 -> 7                                   \* CALL
    [] b \in {244, 250} -> 6                          \* DELEGATECALL STATICCALL
    [] b \in {243, 253} -> 2                          \* RETURN REVERT
    [] OTHER -> 0

Added(b) ==
  CASE b \in 128..143 -> DupAdded(b - 127)
    [] b \in 144..159 -> SwapAdded(b - 143)
    [] b \in 1..11 -> 1
    [] b \in 16..29 -> 1
    [] b = 32 -> 1
    [] b \in {48, 50, 51, 52, 56, 58, 59, 63} -> 1    \* ADDRESS .. GASPRICE EXTCODESIZE EXTCODEHASH
    [] b \in 65..71 -> 1                              \* COINBASE .. SELFBALANCE
    [] b \in {81, 88, 89, 90, 92} -> 1                \* MLOAD PC MSIZE GAS TLOAD
    [] b \in 95..127 -> 1                             \* PUSH0 PUSH1..PUSH32
    [] b \in {240, 241, 244, 250} -> 1                \* CREATE CALL DELEGATECALL STATICCALL
    [] OTHER -> 0

(***************************************************************************)
(* Reading bytecode back as instructions: what the virtual machine sees.   *)
(* PUSHn (0x60 + n - 1) is followed by n immediate bytes.                  *)
(***************************************************************************)
ImmBytes(b) == IF b \in 96..127 THEN b - 95 ELSE 0

Min(a, b) == IF a < b THEN a ELSE b

\* the instructions of `code` from digit position i on; a dangling half byte
\* decodes to an instruction with op = -1
RECURSIVE DecodeFrom(_, _)
DecodeFrom(code, i) ==
  IF i > Len(code) THEN <<>>
  ELSE IF i = Len(code)
    THEN << [op |-> -1, imm |-> <<code[i]>>, off |-> (i - 1) \div 2] >>
    ELSE LET b == 16 * code[i] + code[i + 1]
             n == ImmBytes(b)
         IN  << [op |-> b,
                 imm |-> SubSeq(code, i + 2, Min(Len(code), i + 1 + 2 * n)),
                 off |-> (i - 1) \div 2] >>
             \o DecodeFrom(code, i + 2 + 2 * n)

Decode(code) == DecodeFrom(code, 1)

\* number of instructions of a program
InstrCount(code) == Len(Decode(code))

\* a program is well formed when it is whole bytes and no immediate is cut short
WellFormed(code) ==
  LET d == Decode(code)
  IN  \A k \in DOMAIN d : d[k].op >= 0 /\ Len(d[k].imm) = 2 * ImmBytes(d[k].op)

(***************************************************************************)
(* pg_marginal.py: the template strategies                                 *)
(***************************************************************************)
\* constants.MAX_INSTRUCTIONS, scaled down
MAX_INSTRUCTIONS == 2

_generate_create_program(create_operation, op_count) ==
  LET account_code == H("6d6460016001016000526005601cf3600052")
      empty_pushes == Rep(H("6000"), MAX_INSTRUCTIONS)
      single_op_pushes == Rep(H("600d60126000"), op_count)
      opcodes_with_pops == Rep(ValueHex(create_operation) \o H("50"), op_count)
      pops == Rep(H("50"), MAX_INSTRUCTIONS - op_count)
  IN  account_code \o empty_pushes \o single_op_pushes \o opcodes_with_pops \o pops

_generate_extcode_program(create_operation, op_count, max) ==
  LET empty_pushes == Rep(H("60ff"), MAX_INSTRUCTIONS)
      account_code == H("6c63ffffffff60005260046000f3600052600d60006000f0")
      opcode_args == Rep(H("80"), max - 1)
      opcodes_with_pops == Rep(ValueHex(create_operation) \o H("50"), op_count)
      pops == Rep(H("50"), MAX_INSTRUCTIONS + max - op_count)
  IN  empty_pushes \o account_code \o opcode_args \o opcodes_with_pops \o pops

_generate_extcodecopy_program(create_operation, op_count, max) ==
  LET empty_pushes == Rep(H("60ff"), 5)
      account_deployment_code ==
        H("7f7fffffffffffffffffffffffffffffffffffffffffffffffffffffffffffffff6000527fff60005260206000f30000000000000000000000000000000000000000000000602052602960006000f0")
      opcode_args == Rep(H("60206000600083"), max)
      opcodes == Rep(ValueHex(create_operation), op_count)
      pops == Rep(H("50"), 5)
  IN  empty_pushes \o account_deployment_code \o opcode_args \o opcodes \o pops

\* single_call and noop of _generate_call_program
single_call(mnemonic) ==
  CASE mnemonic = "CALL" -> H("86868686868686f150")
    [] mnemonic = "STATICCALL" -> H("858585858585fa50")
    [] mnemonic = "DELEGATECALL" -> H("858585858585f450")
    [] OTHER -> <<>>

\* faulty variant of noop: the substitute is the call itself
noop_as_single_call(mnemonic) == single_call(mnemonic)

noop(mnemonic) ==
  CASE mnemonic = "CALL" -> H("8686868686868660015860060157fe5b50")
    [] mnemonic = "STATICCALL" -> H("85858585858560015860060157fe5b50")
    [] mnemonic = "DELEGATECALL" -> H("85858585858560015860060157fe5b50")
    [] OTHER -> <<>>

call_account_deployment_code ==
  H("716860015860060157fe5b60005260096017f36000526012600e6000f05f5f60205f5f8561ffff")

_generate_call_program(create_operation, op_count, max) ==
  LET dummy_pushes == Rep(H("60ff"), 5)
      calls == Rep(single_call(create_operation.Mnemonic), op_count)
      noops == Rep(noop(create_operation.Mnemonic), max - op_count)
      dummy_pops == Rep(H("50"), 5)
  IN  dummy_pushes \o call_account_deployment_code \o calls \o noops \o dummy_pops

_generate_log_program(log_operation, op_count, max) ==
  LET memory == H("7f") \o Rep(H("ff"), 32) \o H("6000") \o H("52")
      arguments == Rep(Rep(H("60ff"), arity(log_operation) - 2) \o H("60206000"), max)
      logs == Rep(ValueHex(log_operation), op_count)
  IN  memory \o arguments \o logs

_generate_mcopy_program(mcopy_operation, op_count, max) ==
  LET memory == H("60ff600052")
      arguments == Rep(H("6001601f6000"), max)
  IN  memory \o arguments \o Rep(ValueHex(mcopy_operation), op_count)

\* faulty variant of _generate_keccak256_program: no discards for the missing invocations
_generate_keccak256_program_no_leftover(mcopy_operation, op_count, max) ==
  LET memory == H("7f") \o Rep(H("ff"), 32) \o H("5f52")
      empty_pushes == Rep(H("5f"), max)
      arguments == Rep(H("60206000"), max)
      keccaks_with_pops == Rep(ValueHex(mcopy_operation) \o H("50"), op_count)
  IN  memory \o empty_pushes \o arguments \o keccaks_with_pops

_generate_keccak256_program(mcopy_operation, op_count, max) ==
  LET memory == H("7f") \o Rep(H("ff"), 32) \o H("5f52")
      empty_pushes == Rep(H("5f"), max)
      arguments == Rep(H("60206000"), max)
      keccaks_with_pops == Rep(ValueHex(mcopy_operation) \o H("50"), op_count)
      pop_leftover == Rep(H("50"), max - op_count)
  IN  memory \o empty_pushes \o arguments \o keccaks_with_pops \o pop_leftover

_generate_tload_program(tload_operation, op_count, max) ==
  LET prepare == H("60ff60ff5d")
      arguments == Rep(H("60ff"), max)
  IN  prepare \o arguments \o Rep(ValueHex(tload_operation) \o H("50"), op_count)
              \o Rep(H("50"), max - op_count)

\* the sub-context code, the deployment code and the call sequences of the three
\* strategies that deploy one contract with the operation and one without
tload_no_op_subcontext_code == H("60ff")
tload_op_subcontext_code(operation) == tload_no_op_subcontext_code \o ValueHex(operation)
tstore_no_op_subcontext_code == H("60ff5c60010160ff")
tstore_op_subcontext_code(operation) == tstore_no_op_subcontext_code \o ValueHex(operation)
exit_no_op_subcontext_code == H("60ff60005260026018")
exit_op_subcontext_code(operation) == exit_no_op_subcontext_code \o ValueHex(operation)

\* faulty variant of op_address_load: reads another memory word
op_address_load_other_word == H("60df51")

\* faulty variant of ext_op_call: the result of the call is left on the stack
ext_op_call_unpopped == H("600060006000600060008561fffff1")

op_address_store == H("60ff52")
op_address_load == H("60ff51")

\* one element of no_op_calls / op_calls
ext_no_op_call == H("600060006000600060008561fffff150")
ext_op_call == H("600060006000600060008561fffff150")
exit_no_op_call == H("60006000600060008461fffff450")
exit_op_call == H("60006000600060008461fffff450")

_generate_tload_ext_program(tload_operation, op_count, max) ==
  LET no_op_deployment_code ==
        H("6f60ff60ff5d61") \o tload_no_op_subcontext_code \o H("6000526002601ef3600052601060106000f0")
      op_deployment_code ==
        H("7060ff60ff5d62") \o tload_op_subcontext_code(tload_operation) \o H("6000526003601df36000526011600f6000f0")
      no_op_calls == Rep(ext_no_op_call, max - op_count)
      op_calls == Rep(ext_op_call, op_count)
  IN  op_deployment_code \o op_address_store \o no_op_deployment_code \o no_op_calls
        \o op_address_load \o op_calls

\* the push immediate of _generate_tstore_program: hex(v + 16)[2:]
tstore_immediate(v) == HexOf(v + 16)

\* the loop "for v in range(max_op_count): arguments += ..." from index v on; the
\* range is halved so that long loops unfold to a small depth
RECURSIVE tstore_arguments(_, _)
tstore_arguments(v, max) ==
  IF v >= max THEN <<>>
  ELSE IF v + 1 = max THEN H("60") \o tstore_immediate(v) \o H("6001")
  ELSE tstore_arguments(v, (v + max) \div 2) \o tstore_arguments((v + max) \div 2, max)

_generate_tstore_program(tstore_operation, op_count, max) ==
  tstore_arguments(0, max) \o Rep(ValueHex(tstore_operation), op_count)

RECURSIVE tstore0_arguments(_, _)
tstore0_arguments(v, max) ==
  IF v >= max THEN <<>>
  ELSE IF v + 1 = max THEN H("60") \o tstore_immediate(v) \o H("60") \o tstore_immediate(v)
  ELSE tstore0_arguments(v, (v + max) \div 2) \o tstore0_arguments((v + max) \div 2, max)

_generate_tstore0_program(tstore_operation, op_count, max) ==
  tstore0_arguments(0, max) \o Rep(ValueHex(tstore_operation), op_count)

_generate_tstore_ext_program(tstore_operation, op_count, max) ==
  LET no_op_deployment_code ==
        H("7067") \o tstore_no_op_subcontext_code \o H("60005260086018f36000526011600f6000f0")
      op_deployment_code ==
        H("7168") \o tstore_op_subcontext_code(tstore_operation) \o H("60005260096017f36000526012600e6000f0")
      no_op_calls == Rep(ext_no_op_call, max - op_count)
      op_calls == Rep(ext_op_call, op_count)
  IN  op_deployment_code \o op_address_store \o no_op_deployment_code \o no_op_calls
        \o op_address_load \o op_calls

_generate_subcontext_exit_program(operation, op_count, max) ==
  LET op_deployment_code ==
        H("7269") \o exit_op_subcontext_code(operation) \o H("600052600a6016f36000526013600d6000f0")
      no_op_deployment_code ==
        H("7168") \o exit_no_op_subcontext_code \o H("60005260096017f36000526012600e6000f0")
      no_op_calls == Rep(exit_no_op_call, max - op_count)
      op_calls == Rep(exit_op_call, op_count)
  IN  op_deployment_code \o op_address_store \o no_op_deployment_code \o no_op_calls
        \o op_address_load \o op_calls

\* the dispatch of _generate_single_program (after its assertion)
SingleProgramBytecode(operation, op_count, max) ==
  LET m == operation.Mnemonic IN
  CASE m = "CREATE" -> _generate_create_program(operation, op_count)
    [] m \in {"EXTCODEHASH", "EXTCODESIZE"} -> _generate_extcode_program(operation, op_count, max)
    [] m = "EXTCODECOPY" -> _generate_extcodecopy_program(operation, op_count, max)
    [] m \in {"CALL", "STATICCALL", "DELEGATECALL"} -> _generate_call_program(operation, op_count, max)
    [] m \in {"LOG0", "LOG1", "LOG2", "LOG3", "LOG4"} -> _generate_log_program(operation, op_count, max)
    [] m \in {"REVERT", "RETURN"} -> _generate_subcontext_exit_program(operation, op_count, max)
    [] m = "MCOPY" -> _generate_mcopy_program(operation, op_count, max)
    [] m = "KECCAK256" -> _generate_keccak256_program(operation, op_count, max)
    [] m = "TLOAD" -> _generate_tload_program(operation, op_count, max)
    [] m = "TLOAD_EXT" -> _generate_tload_ext_program(operation, op_count, max)
    [] m = "TSTORE" -> _generate_tstore_program(operation, op_count, max)
    [] m = "TSTORE0" -> _generate_tstore0_program(operation, op_count, max)
    [] m = "TSTORE_EXT" -> _generate_tstore_ext_program(operation, op_count, max)

\* class Program
Program(code, opcode, op_count) ==
  [bytecode |-> code, opcode |-> opcode, op_count |-> op_count]

(***************************************************************************)
(* The random module.  random.seed(a=seed, version=2) fixes the whole      *)
(* stream of draws; what the stream holds is not modelled, only that it is *)
(* a function of the seed: `tape[seed]` is the part of the stream drawn so *)
(* far, a draw beyond it may yield anything, a draw inside it (after       *)
(* seeding again with the same seed) yields what it yielded before.        *)
(* A draw is a pair <<r, n>>: the call reduced the stream entry to r in    *)
(* 0..n-1; the same entry reduced to another range may yield anything.     *)
(***************************************************************************)
MaxSeed == 1
Seeds == 0..MaxSeed

\* the draws `raws`, made from position rng_pos on, agree with the known stream
Consistent(raws) ==
  \A k \in DOMAIN raws :
    (rng_pos + k <= Len(tape[rng_seed]) /\ tape[rng_seed][rng_pos + k][2] = raws[k][2])
      => tape[rng_seed][rng_pos + k][1] = raws[k][1]

\* the stream as known after the draws
Extended(raws) ==
  LET known == tape[rng_seed]
      fresh == { k \in DOMAIN raws : rng_pos + k > Len(known) }
  IN  [tape EXCEPT ![rng_seed] =
         known \o [i \in 1..Cardinality(fresh) |-> raws[Len(known) - rng_pos + i]]]

\* the random module consumes `raws`
Draw(raws) ==
  /\ Consistent(raws)
  /\ tape' = Extended(raws)
  /\ rng_pos' = rng_pos + Len(raws)
  /\ UNCHANGED rng_seed

\* ProgramGenerator.__init__: random.seed(a=seed, version=2)
Seeded(seed) ==
  /\ rng_seed = seed
  /\ rng_pos = 0
  /\ tape = [s \in Seeds |-> <<>>]

\* no call of _generate_random_arithmetic, no call of generate in progress
ValidationIdle ==
  /\ v_pc = "idle" /\ opsLimit = 0 /\ bytecodeLimit = 0 /\ dominant = 0 /\ pushMax = 0
  /\ cleanStack = FALSE /\ randomizePush = FALSE /\ bytecode = <<>> /\ ops_count = 0
  /\ previous_nreturns = 0 /\ iters = 0 /\ start_pos = 0

GenerateIdle ==
  /\ g_pc = "direct" /\ g_args = <<>> /\ g_i = 0 /\ g_programs = <<>>
  /\ g_first = TRUE /\ history = <<>>

MarginalIdle ==
  /\ m_pc = "idle" /\ operations = <<>> /\ max_op_count = 0 /\ step_op_count = 1
  /\ shuffle_counts = FALSE /\ op_counts = <<>> /\ m_next = 0 /\ programs = <<>>

(***************************************************************************)
(* pg_marginal.ProgramGenerator._do_generate, one step per element of its  *)
(* list comprehension                                                      *)
(***************************************************************************)
MaxOpCount == 3
MaxStep == 2

\* list(range(0, stop, step))
RECURSIVE Range(_, _, _)
Range(start, stop, step) ==
  IF start >= stop THEN <<>> ELSE <<start>> \o Range(start + step, stop, step)

\* random.shuffle(x): for i in reversed(range(1, len(x))): j = randbelow(i + 1), swap
\* x[i] and x[j] (0-based).  js[k] is the j drawn for i = len(x) - k.
RECURSIVE Shuffled(_, _, _)
Shuffled(x, js, k) ==
  IF k > Len(js) THEN x
  ELSE LET i == Len(x) - k + 1          \* 1-based position of x[len(x) - k]
           j == js[k] + 1
       IN  Shuffled([x EXCEPT ![i] = x[j], ![j] = x[i]], js, k + 1)

\* the draws of one shuffle of a list of n elements
ShuffleDraws(n) ==
  IF n < 2 THEN { <<>> }
  ELSE { js \in [1..(n - 1) -> 0..(n - 1)] : \A k \in 1..(n - 1) : js[k] <= n - k }

ShuffleRaws(js, n) == [k \in DOMAIN js |-> <<js[k], n - k + 1>>]

\* the opcode filter of _do_generate: one mnemonic, or (opcode=None) a selection
Selections == { <<m>> : m \in MarginalMnemonics } \cup { <<"CALL", "TLOAD_EXT">> }

InitMarginal ==
  /\ Seeded(0) /\ ValidationIdle /\ GenerateIdle
  /\ m_pc = "start"
  /\ operations \in Selections
  /\ max_op_count \in 0..MaxOpCount
  /\ step_op_count \in 1..MaxStep
  /\ shuffle_counts \in BOOLEAN
  /\ op_counts = <<>>
  /\ m_next = 0
  /\ programs = <<>>

\* lines 83-91
DoGenerate ==
  /\ m_pc = "start"
  /\ LET counts == Range(0, max_op_count + 1, step_op_count)
     IN  IF shuffle_counts
           THEN \E js \in ShuffleDraws(Len(counts)) :
                  /\ Draw(ShuffleRaws(js, Len(counts)))
                  /\ op_counts' = Shuffled(counts, js, 1)
           ELSE /\ op_counts' = counts
                /\ UNCHANGED rvars
  /\ m_pc' = "gen"
  /\ UNCHANGED <<operations, max_op_count, step_op_count, shuffle_counts, m_next, programs>>
  /\ UNCHANGED <<vvars, gvars>>

\* the (operation, op_count) pair the comprehension is at
CurrentOperation == Operation(operations[(m_next \div Len(op_counts)) + 1])
CurrentOpCount == op_counts[(m_next % Len(op_counts)) + 1]

\* the assertion of _generate_single_program
AssertOpCount(op_count) == op_count <= MAX_INSTRUCTIONS

\* _generate_single_program for the next pair of the comprehension
GenerateSingleProgram ==
  /\ m_pc = "gen"
  /\ m_next < Len(operations) * Len(op_counts)
  /\ IF AssertOpCount(CurrentOpCount)
       THEN /\ programs' = Append(programs,
                 Program(SingleProgramBytecode(CurrentOperation, CurrentOpCount, max_op_count),
                         CurrentOperation.Mnemonic, CurrentOpCount))
            /\ m_next' = m_next + 1
            /\ m_pc' = "gen"
       ELSE /\ m_pc' = "assert_failed"
            /\ UNCHANGED <<programs, m_next>>
  /\ UNCHANGED <<operations, max_op_count, step_op_count, shuffle_counts, op_counts>>
  /\ UNCHANGED <<rvars, vvars, gvars>>

\* line 95
DoGenerateReturn ==
  /\ m_pc = "gen"
  /\ m_next = Len(operations) * Len(op_counts)
  /\ m_pc' = "done"
  /\ UNCHANGED <<operations, max_op_count, step_op_count, shuffle_counts, op_counts,
                 m_next, programs>>
  /\ UNCHANGED <<rvars, vvars, gvars>>

NextMarginal == DoGenerate \/ GenerateSingleProgram \/ DoGenerateReturn

SpecMarginal == InitMarginal /\ [][NextMarginal]_vars

(***************************************************************************)
(* What a generated program does when the virtual machine runs it: the     *)
(* stack, the memory, the contracts it creates and the calls it makes.     *)
(* Values are kept symbolically: a small number, a long immediate, the     *)
(* address of a created contract (with the code deployed there), or an     *)
(* unknown word.                                                           *)
(***************************************************************************)
Val(t, n, b) == [t |-> t, n |-> n, b |-> b]
IntV(n) == Val("int", n, <<>>)
AnyV == Val("any", 0, <<>>)
AddrV(id, code) == Val("addr", id, code)

ImmValue(imm) == IF Len(imm) <= 6 THEN IntV(HexVal(imm)) ELSE Val("blob", 0, imm)

PadLeft(d, w) == Rep(<<0>>, w - Len(d)) \o d

\* the 64 digits of a 32-byte word; -1 where the digit is not known
Word64(v) ==
  CASE v.t = "int" -> PadLeft(HexOf(v.n), 64)
    [] v.t = "blob" -> PadLeft(v.b, 64)
    [] OTHER -> Rep(<<-1>>, 64)

SetMax(S) == CHOOSE x \in S : \A y \in S : y <= x

\* memory is the list of the MSTOREs done, [off, val], the latest last
MemDigit(mem, a, h) ==
  LET covering == { k \in DOMAIN mem : mem[k].off <= a /\ a < mem[k].off + 32 }
  IN  IF covering = {} THEN 0
      ELSE LET k == SetMax(covering) IN Word64(mem[k].val)[2 * (a - mem[k].off) + h]

ReadBytes(mem, off, size) ==
  [i \in 1..(2 * size) |-> MemDigit(mem, off + ((i - 1) \div 2), ((i - 1) % 2) + 1)]

MLoad(mem, off) ==
  LET covering == { k \in DOMAIN mem : mem[k].off < off + 32 /\ off < mem[k].off + 32 }
  IN  IF covering = {} THEN IntV(0)
      ELSE LET k == SetMax(covering)
           IN  IF mem[k].off = off THEN mem[k].val ELSE AnyV

EmptyMachine ==
  [stack |-> <<>>, mem |-> <<>>, calls |-> <<>>, created |-> 0,
   status |-> "run", ret |-> <<>>, steps |-> 0]

\* the stack items an instruction needs to find
Needs(b) ==
  CASE b \in 128..143 -> b - 127
    [] b \in 144..159 -> b - 142
    [] OTHER -> Removed(b)

IndexOfOffset(d, off) ==
  IF \E k \in DOMAIN d : d[k].off = off
    THEN CHOOSE k \in DOMAIN d : d[k].off = off
    ELSE 0

RECURSIVE Exec(_, _, _)
RECURSIVE StepIns(_, _, _)

\* run the decoded program d from instruction i in machine state st
Exec(d, i, st) ==
  IF st.status # "run" THEN st
  ELSE IF i > Len(d) THEN [st EXCEPT !.status = "stop"]
  ELSE LET r == StepIns(d, i, st) IN Exec(d, r.next, r.st)

\* the code a CREATE deploys: what its init code returns
Deployed(initcode) ==
  LET r == Exec(Decode(initcode), 1, EmptyMachine)
  IN  IF r.status = "return" THEN r.ret ELSE <<-1>>

StepIns(d, i, st) ==
  LET b == d[i].op
      n == Len(st.stack)
      top(k) == st.stack[n - k + 1]
      rest(k) == SubSeq(st.stack, 1, n - k)
      counted == [st EXCEPT !.steps = @ + 1]
      go(stack) == [next |-> i + 1, st |-> [counted EXCEPT !.stack = stack]]
      fail == [next |-> i, st |-> [st EXCEPT !.status = "error"]]
  IN
  IF b < 0 \/ n < Needs(b) \/ Len(d[i].imm) # 2 * ImmBytes(b) THEN fail
  ELSE CASE b = 0 -> [next |-> i, st |-> [counted EXCEPT !.status = "stop"]]
    [] b = 95 -> go(Append(st.stack, IntV(0)))
    [] b \in 96..127 -> go(Append(st.stack, ImmValue(d[i].imm)))
    [] b \in 128..143 -> go(Append(st.stack, top(b - 127)))
    [] b \in 144..159 ->
         LET k == b - 142
         IN  go([st.stack EXCEPT ![n] = top(k), ![n - k + 1] = top(1)])
    [] b = 1 ->
         go(Append(rest(2), IF top(1).t = "int" /\ top(2).t = "int"
                              THEN IntV(top(1).n + top(2).n) ELSE AnyV))
    [] b = 81 ->
         IF top(1).t # "int" THEN fail
         ELSE go(Append(rest(1), MLoad(st.mem, top(1).n)))
    [] b = 82 ->
         IF top(1).t # "int" THEN fail
         ELSE [next |-> i + 1,
               st |-> [counted EXCEPT !.stack = rest(2),
                                      !.mem = Append(@, [off |-> top(1).n, val |-> top(2)])]]
    [] b = 87 ->
         IF top(1).t # "int" \/ top(2).t # "int" THEN fail
         ELSE IF top(2).n = 0 THEN go(rest(2))
         ELSE LET k == IndexOfOffset(d, top(1).n)
              IN  IF k = 0 \/ d[k].op # 91 THEN fail
                  ELSE [next |-> k, st |-> [counted EXCEPT !.stack = rest(2)]]
    [] b = 88 -> go(Append(st.stack, IntV(d[i].off)))
    [] b = 240 ->
         IF top(2).t # "int" \/ top(3).t # "int" THEN fail
         ELSE [next |-> i + 1,
               st |-> [counted EXCEPT
                 !.created = @ + 1,
                 !.stack = Append(rest(3),
                     AddrV(st.created + 1, Deployed(ReadBytes(st.mem, top(2).n, top(3).n))))]]
    [] b \in {241, 244, 250} ->
         [next |-> i + 1,
          st |-> [counted EXCEPT !.stack = Append(rest(Removed(b)), AnyV),
                                 !.calls = Append(@, [op |-> b, target |-> top(2)])]]
    [] b \in {243, 253} ->
         IF top(1).t # "int" \/ top(2).t # "int" THEN fail
         ELSE [next |-> i,
               st |-> [counted EXCEPT !.stack = rest(2),
                                      !.status = IF b = 243 THEN "return" ELSE "revert",
                                      !.ret = ReadBytes(st.mem, top(1).n, top(2).n)]]
    [] b = 254 -> fail
    [] OTHER -> go(rest(Removed(b)) \o Rep(<<AnyV>>, Added(b)))

\* the machine after running a whole program
Run(code) == Exec(Decode(code), 1, EmptyMachine)

(***************************************************************************)
(* pg_validation.py: _generate_random_arithmetic                           *)
(***************************************************************************)
\* the strings "DUPclass" and "SWAPclass" of all_ops, as numbers no opcode has
DUPclass == 1000
SWAPclass == 1001

arithmetic_ops == <<1, 2, 3, 4, 5, 6, 7, 8, 9>>
exp_ops == <<10>>
bitwise_ops == <<22, 23, 24, 25>>
byte_ops == <<26, 11>>
shift_ops == <<27, 28, 29>>
comparison_ops == <<16, 17, 18, 19, 20>>
iszero_ops == <<21>>
simple_nullary_ops == <<48, 50, 51, 52, 56, 58, 65, 66, 67, 68, 69, 70, 71, 88, 89, 90>>
pop_ops == <<80>>
jumpdest_ops == <<91>>
dup_ops == [i \in 1..16 |-> 127 + i]
swap_ops == [i \in 1..16 |-> 143 + i]

all_ops ==
  arithmetic_ops \o exp_ops \o bitwise_ops \o byte_ops \o shift_ops \o comparison_ops
    \o iszero_ops \o simple_nullary_ops \o pop_ops \o jumpdest_ops
    \o <<DUPclass, SWAPclass>>

Elems(seq) == { seq[i] : i \in DOMAIN seq }
IndexOf(seq, x) == CHOOSE i \in DOMAIN seq : seq[i] = x

\* self._operations[op]: the opcode digits operation['Value'][2:4] and the two
\* stack columns
OperationsEntry(op) ==
  [opcode |-> PadLeft(HexOf(op), 2), arity |-> Removed(op), nreturns |-> Added(op)]

\* hex(value)[2:] of the number whose digits are `bits`: no leading zeros
RECURSIVE HexOfBits(_)
HexOfBits(bits) ==
  IF Len(bits) > 1 /\ bits[1] = 0 THEN HexOfBits(Tail(bits)) ELSE bits

\* _random_push once its draws are made: `push` the width drawn (or pushMax),
\* `bits` the 2 * push digits of random.getrandbits(8 * push)
_random_push(push, bits) ==
  LET value == HexOfBits(bits)
      padded == IF Len(value) < 2 * push
                  THEN Rep(<<0>>, 2 * push - Len(value)) \o value
                  ELSE value
      op_num == 6 * 16 + push - 1
      op == HexOf(op_num)
  IN  op \o padded

\* faulty variant of _random_push_less_32: the value is not padded to two digits
_random_push_less_32_unpadded(drawn) == H("60") \o HexOf(drawn)

\* _random_push_less_32 once random.randint(0, 31) is drawn
_random_push_less_32(drawn) ==
  LET value == HexOf(drawn)
      padded == IF Len(value) < 2 THEN Rep(<<0>>, 2 - Len(value)) \o value ELSE value
  IN  H("60") \o padded

\* faulty variant of PushMaxRejected: no upper end
PushMaxRejected_lower_only(push) == push < 1

\* the arguments check that opens _generate_random_arithmetic
PushMaxRejected(push) == push < 1 \/ push > 32
DominantRejected(dom) == dom # 0 /\ dom \notin Elems(all_ops)

\* faulty variant of LoopCondition: an iteration still starts at the limit
LoopCondition_inclusive(limit, count, byteLimit, code) ==
  /\ (limit = 0 \/ count <= limit)
  /\ (byteLimit = 0 \/ Len(code) <= 2 * byteLimit)

\* the test of the while loop
LoopCondition(limit, count, byteLimit, code) ==
  /\ (limit = 0 \/ count < limit)
  /\ (byteLimit = 0 \/ Len(code) < 2 * byteLimit)

\* faulty variant of NeededPushes: one more value is taken as left over
NeededPushes_one_short(arity_in, clean, previous) ==
  IF clean THEN arity_in ELSE arity_in - previous - 1

\* needed_pushes (line 166)
NeededPushes(arity_in, clean, previous) ==
  IF clean THEN arity_in ELSE arity_in - previous

\* does the byte / shift branch emit the general push (lines 170 and 173)
FirstOperandPushed(clean, previous) == clean \/ previous = 0

\* faulty variant of Discards: one POP short
Discards_one_short(clean, nreturns) ==
  IF clean /\ nreturns > 0 THEN Rep(H("50"), nreturns - 1) ELSE <<>>

\* the instructions discarded after the operation (line 187)
Discards(clean, nreturns) == IF clean THEN Rep(H("50"), nreturns) ELSE <<>>

\* ---- what the model samples of the arguments and of the draws
MaxOpsLimit == 3
MaxBytecodeLimit == 2
MaxDepth == 2
MaxIters == 2

\* ADD ADDMOD ISZERO BYTE SIGNEXTEND SHL ADDRESS POP JUMPDEST and the two classes
SampledOps == {1, 8, 21, 26, 11, 27, 48, 80, 91, DUPclass, SWAPclass}
PushMaxValues == {0, 1, 32, 33}
Dominants == {0, DUPclass, 128}
\* getrandbits: all digits 0, all digits f, a single leading 0 digit
BitPatterns == {0, 1, 2}
SmallValues == {0, 31}

BitsOf(push, pattern) ==
  CASE pattern = 0 -> Rep(<<0>>, 2 * push)
    [] pattern = 1 -> Rep(<<15>>, 2 * push)
    [] OTHER -> <<0>> \o Rep(<<15>>, 2 * push - 1)

\* the arguments of a call
ArgumentsChosen ==
  /\ opsLimit \in 0..MaxOpsLimit
  /\ bytecodeLimit \in 0..MaxBytecodeLimit
  /\ opsLimit # 0 \/ bytecodeLimit # 0      \* generate supplies opsLimit when both are unset
  /\ dominant \in Dominants
  /\ pushMax \in PushMaxValues
  /\ cleanStack \in BOOLEAN
  /\ randomizePush \in BOOLEAN

Init ==
  /\ Seeded(0) /\ MarginalIdle /\ GenerateIdle
  /\ v_pc = "call"
  /\ ArgumentsChosen
  /\ bytecode = <<>> /\ ops_count = 0 /\ previous_nreturns = 0 /\ iters = 0 /\ start_pos = 0

\* lines 101-144: the arguments are checked and the locals set up
Enter ==
  /\ v_pc = "call"
  /\ start_pos' = rng_pos
  /\ iters' = 0
  /\ IF PushMaxRejected(pushMax)
       THEN /\ v_pc' = "raised"
            /\ UNCHANGED <<bytecode, ops_count, previous_nreturns>>
       ELSE /\ bytecode' = <<>>
            /\ ops_count' = 0
            /\ previous_nreturns' = 0
            /\ v_pc' = IF DominantRejected(dominant) THEN "raised" ELSE "loop"
  /\ UNCHANGED <<opsLimit, bytecodeLimit, dominant, pushMax, cleanStack, randomizePush>>
  /\ UNCHANGED <<mvars, rvars, gvars>>

\* lines 146-190: one iteration of the while loop, with the draws it makes
Iteration ==
  /\ v_pc = "loop"
  /\ LoopCondition(opsLimit, ops_count, bytecodeLimit, bytecode)
  /\ iters < MaxIters
  /\ \E d \in (IF dominant # 0 THEN {0, 1} ELSE {1}) :        \* random.random() < 0.5: d = 0
     \E pick \in (IF dominant # 0 /\ d = 0 THEN {dominant} ELSE SampledOps) :
     \E variant \in (IF pick \in {DUPclass, SWAPclass} THEN 1..MaxDepth ELSE {1}) :
       LET op == CASE pick = DUPclass -> dup_ops[variant]
                   [] pick = SWAPclass -> swap_ops[variant]
                   [] OTHER -> pick
           operation == OperationsEntry(op)
           needed_pushes == NeededPushes(operation.arity, cleanStack, previous_nreturns)
           isByte == op \in Elems(byte_ops)
           isShift == op \in Elems(shift_ops)
           npush == IF isByte \/ isShift
                      THEN (IF FirstOperandPushed(cleanStack, previous_nreturns) THEN 1 ELSE 0)
                      ELSE (IF needed_pushes > 0 THEN needed_pushes ELSE 0)
       IN
       \E w \in (IF npush > 0 /\ randomizePush THEN {1, pushMax} ELSE {pushMax}) :
       \E v \in (IF npush > 0 \/ isShift THEN BitPatterns ELSE {0}) :
       \E small \in (IF isByte THEN SmallValues ELSE {0}) :
         LET rDominant == IF dominant # 0 THEN << <<d, 2>> >> ELSE <<>>
             rPick == IF dominant # 0 /\ d = 0 THEN <<>>
                      ELSE << <<IndexOf(all_ops, pick) - 1, Len(all_ops)>> >>
             rVariant == IF pick \in {DUPclass, SWAPclass}
                           THEN << <<variant - 1, 16>> >> ELSE <<>>
             rPush == (IF randomizePush THEN << <<w - 1, pushMax>> >> ELSE <<>>)
                        \o << <<v, Cardinality(BitPatterns)>> >>
             rLast == CASE isByte -> << <<small, 32>> >>
                        [] isShift -> << <<v, Cardinality(BitPatterns)>> >>
                        [] OTHER -> <<>>
             pushes == Rep(_random_push(w, BitsOf(w, v)), npush)
                         \o (CASE isByte -> _random_push_less_32(small)
                               [] isShift -> _random_push(1, BitsOf(1, v))
                               [] OTHER -> <<>>)
         IN  /\ Draw(rDominant \o rPick \o rVariant \o Rep(rPush, npush) \o rLast)
             /\ bytecode' = bytecode \o pushes \o operation.opcode
                              \o Discards(cleanStack, operation.nreturns)
             /\ ops_count' = ops_count + needed_pushes + 1
                              + (IF cleanStack THEN operation.nreturns ELSE 0)
             /\ previous_nreturns' = IF cleanStack THEN previous_nreturns
                                     ELSE operation.nreturns
  /\ iters' = iters + 1
  /\ UNCHANGED <<v_pc, opsLimit, bytecodeLimit, dominant, pushMax, cleanStack,
                 randomizePush, start_pos>>
  /\ UNCHANGED <<mvars, gvars>>

\* line 192: return Program(bytecode, ops_count)
Return ==
  /\ v_pc = "loop"
  /\ ~LoopCondition(opsLimit, ops_count, bytecodeLimit, bytecode)
  /\ v_pc' = "returned"
  /\ UNCHANGED <<opsLimit, bytecodeLimit, dominant, pushMax, cleanStack, randomizePush,
                 bytecode, ops_count, previous_nreturns, iters, start_pos>>
  /\ UNCHANGED <<mvars, rvars, gvars>>

Next == Enter \/ Iteration \/ Return

Spec == Init /\ [][Next]_vars

(***************************************************************************)
(* Properties of the isolation synthesizer (checked under SpecMarginal)    *)
(***************************************************************************)
CallFamily == {"CALL", "STATICCALL", "DELEGATECALL"}
ExtFamily == {"TLOAD_EXT", "TSTORE_EXT"}
ExitFamily == {"REVERT", "RETURN"}
HarnessMnemonics == CallFamily \cup ExtFamily \cup ExitFamily

\* two programs of one _do_generate run for the same operation
SameOperation(i, j) == programs[i].opcode = programs[j].opcode

\* C1 as stated: for every operation and every max_op_count, the programs generated
\* for the different op_counts all have the same length, in hexadecimal digits
\* (bytes) and in instructions.
C1_ConstantLength ==
  \A i, j \in DOMAIN programs :
    SameOperation(i, j) =>
      /\ Len(programs[i].bytecode) = Len(programs[j].bytecode)
      /\ InstrCount(programs[i].bytecode) = InstrCount(programs[j].bytecode)

\* what one more repetition adds to a program, in hexadecimal digits and in instructions
DigitsPerRepetition(m) ==
  CASE m = "CREATE" -> 14
    [] m \in CallFamily -> -16
    [] m \in ExtFamily \cup ExitFamily -> 0
    [] OTHER -> 2

InstrPerRepetition(m) ==
  CASE m = "CREATE" -> 4
    [] m \in CallFamily -> -6
    [] m \in ExtFamily \cup ExitFamily -> 0
    [] OTHER -> 1

\* C1 amended: the length is the same for every op_count only for TLOAD_EXT,
\* TSTORE_EXT, REVERT and RETURN; for the other strategies each repetition changes
\* the length by a fixed non-zero amount (the operation itself: one byte, one
\* instruction; CREATE: 7 bytes, 4 instructions; the call family: 8 bytes and 6
\* instructions less, the no-op block being longer than the call).
C1_LengthPerRepetition ==
  \A i, j \in DOMAIN programs :
    SameOperation(i, j) =>
      LET m == programs[i].opcode
          dn == programs[i].op_count - programs[j].op_count
      IN  /\ Len(programs[i].bytecode) - Len(programs[j].bytecode)
               = DigitsPerRepetition(m) * dn
          /\ InstrCount(programs[i].bytecode) - InstrCount(programs[j].bytecode)
               = InstrPerRepetition(m) * dn

\* a run that has generated a constant-length operation and a varying-length one,
\* each for two different op_counts
C1_Witness ==
  /\ \E i, j \in DOMAIN programs :
       /\ programs[i].opcode = "TLOAD_EXT" /\ programs[j].opcode = "TLOAD_EXT"
       /\ programs[i].op_count > programs[j].op_count
  /\ \E i, j \in DOMAIN programs :
       /\ programs[i].opcode = "CALL" /\ programs[j].opcode = "CALL"
       /\ programs[i].op_count > programs[j].op_count

\* the instruction sequence of one real invocation and of one no-op substitute
RealInvocation(m) ==
  CASE m \in CallFamily -> single_call(m)
    [] m \in ExtFamily -> ext_op_call
    [] m \in ExitFamily -> exit_op_call

SubstituteInvocation(m) ==
  CASE m \in CallFamily -> noop(m)
    [] m \in ExtFamily -> ext_no_op_call
    [] m \in ExitFamily -> exit_no_op_call

\* the digits of a program that follow its invocations (the dummy pops of the call family)
HarnessTail(m) == IF m \in CallFamily THEN 10 ELSE 0

\* a harness program is made of op_count real invocations and max_op_count - op_count
\* substitutes: the real ones end the program (before the tail) for the deployed
\* strategies, where the substitutes come first; the call family puts the calls first
BuiltFromInvocations(p) ==
  LET m == p.opcode
      real == Rep(RealInvocation(m), p.op_count)
      subst == Rep(SubstituteInvocation(m), max_op_count - p.op_count)
      body == IF m \in CallFamily THEN real \o subst
              ELSE subst \o op_address_load \o real
      last == Len(p.bytecode) - HarnessTail(m)
  IN  /\ Len(body) <= last
      /\ SubSeq(p.bytecode, last - Len(body) + 1, last) = body

\* C2 as stated: for every deployment-harness operation the real invocation and
\* its no-op substitute have the same number of bytes and of instructions.
C2_EqualInvocations ==
  \A i \in DOMAIN programs :
    programs[i].opcode \in HarnessMnemonics =>
      LET m == programs[i].opcode
      IN  /\ BuiltFromInvocations(programs[i])
          /\ Len(RealInvocation(m)) = Len(SubstituteInvocation(m))
          /\ InstrCount(RealInvocation(m)) = InstrCount(SubstituteInvocation(m))

\* C2 amended: the real invocation and the substitute are the same instruction
\* sequence for TLOAD_EXT, TSTORE_EXT, REVERT and RETURN (the deployed code with the
\* operation being the deployed code without it followed by the operation); for
\* CALL, STATICCALL and DELEGATECALL the substitute is 8 bytes and 6 instructions
\* longer than the real invocation.
C2_InvocationLengths ==
  \A i \in DOMAIN programs :
    programs[i].opcode \in HarnessMnemonics =>
      LET m == programs[i].opcode
          real == RealInvocation(m)
          subst == SubstituteInvocation(m)
      IN  /\ BuiltFromInvocations(programs[i])
          /\ m \in ExtFamily \cup ExitFamily => real = subst
          /\ m \in CallFamily =>
               /\ Len(subst) = Len(real) + 16
               /\ InstrCount(subst) = InstrCount(real) + 6

\* a run that generated, with real and substitute invocations both present, a
\* program of the call family and one of the deployed strategies
C2_Witness ==
  /\ \E i \in DOMAIN programs :
       /\ programs[i].opcode = "CALL"
       /\ 0 < programs[i].op_count /\ programs[i].op_count < max_op_count
  /\ \E i \in DOMAIN programs :
       /\ programs[i].opcode = "TLOAD_EXT"
       /\ 0 < programs[i].op_count /\ programs[i].op_count < max_op_count

\* the calls a program makes into a contract whose code holds / does not hold the
\* measured instruction
HoldsOperation(code, b) == LET d == Decode(code) IN \E k \in DOMAIN d : d[k].op = b

OpByte(m) == HexVal(ValueHex(Operation(m)))

RealCalls(r, m) ==
  { k \in DOMAIN r.calls :
      r.calls[k].target.t = "addr" /\ HoldsOperation(r.calls[k].target.b, OpByte(m)) }

SubstituteCalls(r, m) ==
  { k \in DOMAIN r.calls :
      r.calls[k].target.t = "addr" /\ ~HoldsOperation(r.calls[k].target.b, OpByte(m)) }

InvocationCounts(p) ==
  LET r == Run(p.bytecode)
  IN  /\ r.status = "stop"
      /\ Cardinality(RealCalls(r, p.opcode)) = p.op_count
      /\ Cardinality(SubstituteCalls(r, p.opcode)) = max_op_count - p.op_count
      /\ Len(r.calls) = max_op_count

\* the program the last step generated (the earlier ones were the newest before)
NewestProgram == IF programs = <<>> THEN {} ELSE {Len(programs)}

\* C9 as stated: every deployment-harness program makes op_count invocations of the
\* contract with the operation and max_op_count - op_count invocations of the
\* contract without it, max_op_count invocations in all.
C9_InvocationsAllFamilies ==
  \A i \in NewestProgram :
    programs[i].opcode \in HarnessMnemonics => InvocationCounts(programs[i])

CountOp(code, b) == LET d == Decode(code) IN Cardinality({ k \in DOMAIN d : d[k].op = b })

\* the programs of the call family: op_count calls, all of the one deployed
\* contract, and max_op_count - op_count inline blocks that call nothing
CallFamilyInvocations(p) ==
  LET r == Run(p.bytecode)
  IN  /\ r.status = "stop"
      /\ r.created = 1
      /\ Len(r.calls) = p.op_count
      /\ \A k \in DOMAIN r.calls :
           /\ r.calls[k].op = OpByte(p.opcode)
           /\ r.calls[k].target = AddrV(1, H("60015860060157fe5b"))
      /\ CountOp(p.bytecode, 91) = max_op_count - p.op_count

\* C9 amended: the statement holds for TLOAD_EXT, TSTORE_EXT, REVERT and RETURN; a
\* program for CALL, STATICCALL or DELEGATECALL makes op_count invocations only, all
\* of the single deployed contract, its max_op_count - op_count substitutes being
\* inline instruction blocks that enter no contract.
C9_Invocations ==
  \A i \in NewestProgram :
    /\ programs[i].opcode \in ExtFamily \cup ExitFamily => InvocationCounts(programs[i])
    /\ programs[i].opcode \in CallFamily => CallFamilyInvocations(programs[i])

\* a run with real and substitute invocations in a program of each kind
C9_Witness ==
  /\ \E i \in NewestProgram :
       /\ programs[i].opcode = "TLOAD_EXT"
       /\ programs[i].op_count = 1 /\ max_op_count = 2
  /\ \E i \in DOMAIN programs :
       /\ programs[i].opcode = "CALL"
       /\ programs[i].op_count = 1

(***************************************************************************)
(* Both synthesizers side by side: a behaviour is a run of the isolation   *)
(* synthesizer or a call of _generate_random_arithmetic                    *)
(***************************************************************************)
SpecArguments == (Init \/ InitMarginal) /\ [][Next \/ NextMarginal]_vars

(***************************************************************************)
(* Properties of the randomized synthesizer (checked under Spec)           *)
(***************************************************************************)
Running == v_pc \in {"loop", "returned"}
OpsLimitSet == opsLimit # 0
BytecodeLimitSet == bytecodeLimit # 0
IterationStep == bytecode' # bytecode

\* the stack depth after the instructions d[i..], from `depth`; -1 when an
\* instruction finds fewer values than it takes
RECURSIVE DepthFrom(_, _, _)
DepthFrom(d, i, depth) ==
  IF i > Len(d) THEN depth
  ELSE IF d[i].op < 0 \/ depth < Removed(d[i].op) THEN -1
  ELSE DepthFrom(d, i + 1, depth - Removed(d[i].op) + Added(d[i].op))

StackDepth(code) == DepthFrom(Decode(code), 1, 0)
IsPush(ins) == ins.op \in 96..127

\* C3 (as stated): at the loop head and at return the count is at most
\* ops_limit when it is set and the byte length at most bytecode_limit when it
\* is set.
C3_LimitsNeverExceeded ==
  Running =>
    /\ (OpsLimitSet => ops_count <= opsLimit)
    /\ (BytecodeLimitSet => Len(bytecode) <= 2 * bytecodeLimit)

\* C3 (amended): the limits are tested only before an iteration: an iteration
\* starts only while the count is below ops_limit (when set) and the byte
\* length below bytecode_limit (when set), and the call returns only when a set
\* limit is reached or passed.
C3_LimitsTestedBeforeIteration ==
  [][ /\ IterationStep =>
           /\ (OpsLimitSet => ops_count < opsLimit)
           /\ (BytecodeLimitSet => Len(bytecode) < 2 * bytecodeLimit)
      /\ (v_pc = "loop" /\ v_pc' = "returned") =>
           \/ (OpsLimitSet /\ ops_count >= opsLimit)
           \/ (BytecodeLimitSet /\ Len(bytecode) >= 2 * bytecodeLimit) ]_vars

\* the last iteration took the count and the byte length past both limits
C3_Witness ==
  /\ v_pc = "returned"
  /\ OpsLimitSet /\ ops_count > opsLimit
  /\ BytecodeLimitSet /\ Len(bytecode) > 2 * bytecodeLimit

\* C4 (as stated): the count returned is the number of instructions in the
\* bytecode.
C4_CountIsEmitted ==
  v_pc = "returned" => ops_count = InstrCount(bytecode)

\* C5 (as stated, for a call with only ops_limit set): the loop terminates on
\* every sequence of draws because every iteration brings the count closer to
\* ops_limit.
C5_EveryIterationAdvances ==
  [][ (IterationStep /\ OpsLimitSet /\ ~BytecodeLimitSet) => ops_count' > ops_count ]_vars

\* C7: the bytecode is whole instructions, every BYTE or SIGNEXTEND in it comes
\* right after a PUSH1 of a value in 0..31, and every SHL, SHR or SAR right
\* after a PUSH1.
C7_ImmediateBeforeByteAndShift ==
  LET d == Decode(bytecode)
  IN  \A i \in DOMAIN d :
        /\ d[i].op >= 0
        /\ Len(d[i].imm) = 2 * ImmBytes(d[i].op)
        /\ d[i].op \in {26, 11} =>
             /\ i > 1
             /\ d[i - 1].op = 96
             /\ Len(d[i - 1].imm) = 2
             /\ HexVal(d[i - 1].imm) \in 0..31
        /\ d[i].op \in {27, 28, 29} =>
             /\ i > 1
             /\ d[i - 1].op = 96
             /\ Len(d[i - 1].imm) = 2

\* without clean_stack, after a DUP left two values on the stack, a BYTE or
\* SIGNEXTEND was emitted with its one push
C7_Witness ==
  LET d == Decode(bytecode)
  IN  /\ ~cleanStack /\ previous_nreturns = 1
      /\ \E i \in DOMAIN d :
           /\ i > 2 /\ d[i].op \in {26, 11}
           /\ d[i - 1].op = 96 /\ d[i - 2].op = 128

\* C8: with clean_stack an iteration emits as many pushes as the operation
\* takes, the operation, and as many POPs as it leaves; the stack depth after
\* the iteration is 0 and nothing is pending.
C8_CleanIteration ==
  [][ (IterationStep /\ cleanStack) =>
        LET before == InstrCount(bytecode)
            d == Decode(bytecode')
            seg == SubSeq(d, before + 1, Len(d))
        IN  /\ \E k \in DOMAIN seg :
                 /\ k - 1 = Removed(seg[k].op)
                 /\ \A j \in 1..(k - 1) : IsPush(seg[j])
                 /\ Len(seg) - k = Added(seg[k].op)
                 /\ \A j \in (k + 1)..Len(seg) : seg[j].op = 80
            /\ StackDepth(bytecode') = 0
            /\ previous_nreturns' = 0 ]_vars

\* clean_stack: a second iteration, of a DUP or a SWAP, has been emitted and
\* cleared after a first one
C8_Witness ==
  LET d == Decode(bytecode)
  IN  /\ cleanStack /\ v_pc = "returned" /\ iters = 2
      /\ d[Len(d)].op = 80
      /\ \E i \in DOMAIN d : i > 2 /\ d[i].op \in 128..159

\* among the instructions d an iteration has added after the first `before`,
\* the place of the sampled operation: the first that is not a push (0: none)
SampledAt(d, before) ==
  IF \E k \in (before + 1)..Len(d) : ~IsPush(d[k])
    THEN CHOOSE k \in (before + 1)..Len(d) :
           ~IsPush(d[k]) /\ \A j \in (before + 1)..(k - 1) : IsPush(d[j])
    ELSE 0

\* the stack holds what the operation d[k] takes when it is reached, and what
\* every instruction of d takes
OperandsPresent(d, k) ==
  /\ k > 0
  /\ DepthFrom(SubSeq(d, 1, k - 1), 1, 0) >= Removed(d[k].op)
  /\ DepthFrom(d, 1, 0) >= 0

PendingIsArityOut(d, k) == OperandsPresent(d, k) /\ previous_nreturns' = Added(d[k].op)

PendingByMode(d, k) ==
  /\ OperandsPresent(d, k)
  /\ previous_nreturns' = IF cleanStack THEN 0 ELSE Added(d[k].op)

\* C11 (as stated): in both modes the stack holds arity-in values when an
\* operation is emitted, and pending-returns is 0 at program start, never
\* negative, and after an operation equal to the operation's arity-out.
C11_PendingIsArityOut ==
  [][ /\ (v_pc = "call" /\ v_pc' = "loop") => previous_nreturns' = 0
      /\ IterationStep =>
           /\ previous_nreturns >= 0
           /\ PendingIsArityOut(Decode(bytecode'),
                                SampledAt(Decode(bytecode'), InstrCount(bytecode))) ]_vars

\* C11 (amended): in both modes the stack holds arity-in values when an
\* operation is emitted; pending-returns is 0 at program start and never
\* negative; after an operation it is the operation's arity-out without
\* clean_stack and 0 with clean_stack.
C11_StackWellFormed ==
  [][ /\ (v_pc = "call" /\ v_pc' = "loop") => previous_nreturns' = 0
      /\ IterationStep =>
           /\ previous_nreturns >= 0
           /\ PendingByMode(Decode(bytecode'),
                            SampledAt(Decode(bytecode'), InstrCount(bytecode))) ]_vars

\* without clean_stack an ADD has been emitted after an ADDRESS with one push,
\* the other operand being the value ADDRESS left
C11_Witness ==
  LET d == Decode(bytecode)
  IN  /\ ~cleanStack /\ iters = 2 /\ previous_nreturns = 1
      /\ Len(d) = 3
      /\ d[1].op = 48 /\ IsPush(d[2]) /\ d[3].op = 1

(***************************************************************************)
(* The isolation synthesizer asked for a few hundred invocations of TSTORE *)
(* or TSTORE0.  With a step above max_op_count the only op_count is 0, so  *)
(* the assertion of _generate_single_program passes whatever               *)
(* max_op_count is.                                                        *)
(***************************************************************************)
TstoreCountLow == 237
TstoreCountHigh == 244
TstoreFamily == {"TSTORE", "TSTORE0"}

InitTstore ==
  /\ Seeded(0) /\ ValidationIdle /\ GenerateIdle
  /\ m_pc = "start"
  /\ operations \in { <<m>> : m \in TstoreFamily }
  /\ max_op_count \in TstoreCountLow..TstoreCountHigh
  /\ step_op_count \in max_op_count..(max_op_count + 1)
  /\ shuffle_counts \in BOOLEAN
  /\ op_counts = <<>>
  /\ m_next = 0
  /\ programs = <<>>

SpecTstore == InitTstore /\ [][NextMarginal]_vars

\* the program read byte by byte: 2 * max times a PUSH1 (0x60) and its one byte,
\* then op_count times the operation (0x5d)
PushesAndStores(code, max, op_count) ==
  /\ Len(code) = 8 * max + 2 * op_count
  /\ \A k \in 0..(2 * max - 1) : SubSeq(code, 4 * k + 1, 4 * k + 2) = H("60")
  /\ \A k \in 0..(op_count - 1) :
       SubSeq(code, 8 * max + 2 * k + 1, 8 * max + 2 * k + 2) = H("5d")

\* C13: in every generated TSTORE or TSTORE0 program the immediate of each index v
\* below max_op_count is two hexadecimal digits, the bytecode is whole bytes and
\* each PUSH1 is followed by exactly one immediate byte.
C13_TwoHexPositions ==
  \A i \in NewestProgram :
    programs[i].opcode \in TstoreFamily =>
      /\ \A v \in 0..(max_op_count - 1) : Len(tstore_immediate(v)) = 2
      /\ Len(programs[i].bytecode) % 2 = 0
      /\ PushesAndStores(programs[i].bytecode, max_op_count, programs[i].op_count)

\* the same, up to the largest count whose last index plus 16 is below 256
C13_TwoHexPositionsTo240 ==
  \A i \in NewestProgram :
    programs[i].opcode \in TstoreFamily /\ max_op_count <= 240 =>
      /\ \A v \in 0..(max_op_count - 1) : Len(tstore_immediate(v)) = 2
      /\ PushesAndStores(programs[i].bytecode, max_op_count, programs[i].op_count)

\* a TSTORE program generated for 241 invocations: odd length, three-digit immediate
C13_Witness241 ==
  \E i \in NewestProgram :
    /\ programs[i].opcode = "TSTORE" /\ max_op_count = 241
    /\ Len(tstore_immediate(240)) = 3
    /\ Len(programs[i].bytecode) % 2 = 1

(***************************************************************************)
(* The stack of the programs that pad to a constant length                 *)
(***************************************************************************)
LogFamily == {"LOG0", "LOG1", "LOG2", "LOG3", "LOG4"}
ExtcodeFamily == {"EXTCODEHASH", "EXTCODESIZE"}
PaddingMnemonics ==
  {"KECCAK256", "TLOAD", "MCOPY", "TSTORE", "TSTORE0", "EXTCODECOPY"}
    \cup LogFamily \cup ExtcodeFamily

\* the instructions of a program that put an operand on the stack: PUSH0..PUSH32, DUPn
Producers(code) ==
  LET d == Decode(code) IN Cardinality({ k \in DOMAIN d : d[k].op \in 95..143 })

\* the operand pushes do not depend on op_count, and no instruction finds fewer
\* values on the stack than it removes
OperandsForAll(p) ==
  /\ Producers(p.bytecode)
       = Producers(SingleProgramBytecode(Operation(p.opcode), 0, max_op_count))
  /\ StackDepth(p.bytecode) >= 0
  /\ Run(p.bytecode).status = "stop"

\* C12 (as stated): in a program of a padding strategy the operand pushes are those
\* of max_op_count invocations, the stack never underflows, and the stack depth at
\* the end of the program is the same for every op_count of the run.
C12_SameFinalDepth ==
  \A i \in NewestProgram :
    programs[i].opcode \in PaddingMnemonics =>
      /\ OperandsForAll(programs[i])
      /\ \A j \in DOMAIN programs :
           SameOperation(i, j) =>
             StackDepth(programs[j].bytecode) = StackDepth(programs[i].bytecode)

\* the operands each missing invocation leaves on the stack at the end
LeftPerMissing(m) ==
  CASE m \in {"TLOAD"} \cup ExtcodeFamily -> 0
    [] m = "KECCAK256" -> 1
    [] m \in {"TSTORE", "TSTORE0"} -> 2
    [] m = "MCOPY" -> 3
    [] m = "EXTCODECOPY" -> 4
    [] m \in LogFamily -> arity(Operation(m))

\* the values that stay on the stack whatever op_count is
LeftAlways(m, max) ==
  CASE m = "KECCAK256" -> max
    [] m = "EXTCODECOPY" -> 1
    [] m \in ExtcodeFamily -> IF max = 0 THEN 1 ELSE 0
    [] OTHER -> 0

\* C12 (amended): the operand pushes are those of max_op_count invocations and the
\* stack never underflows; the final depth does not depend on op_count for TLOAD,
\* EXTCODEHASH and EXTCODESIZE only.  Each missing invocation leaves 1 value for
\* KECCAK256, 2 for TSTORE and TSTORE0, 3 for MCOPY, 4 for EXTCODECOPY and the
\* whole operand list for LOG0..LOG4.
C12_FinalDepth ==
  \A i \in NewestProgram :
    programs[i].opcode \in PaddingMnemonics =>
      /\ OperandsForAll(programs[i])
      /\ StackDepth(programs[i].bytecode)
           = LeftAlways(programs[i].opcode, max_op_count)
               + LeftPerMissing(programs[i].opcode) * (max_op_count - programs[i].op_count)
      /\ Len(Run(programs[i].bytecode).stack) = StackDepth(programs[i].bytecode)

\* a run whose KECCAK256 programs for 0 and for 1 of 2 invocations end at depths 4 and 3
C12_Witness ==
  /\ max_op_count = 2
  /\ \E i \in NewestProgram :
       /\ programs[i].opcode = "KECCAK256" /\ programs[i].op_count = 1
       /\ StackDepth(programs[i].bytecode) = 3
  /\ \E j \in DOMAIN programs :
       /\ programs[j].opcode = "KECCAK256" /\ programs[j].op_count = 0
       /\ StackDepth(programs[j].bytecode) = 4

DefaultOpsLimit == 100

\* ---- what the model samples of the calls
MaxCount == 2
MaxPrograms == 2

\* faulty variant of random_seed: the random module is left as it is
random_seed_skipped(seed) == [seed |-> rng_seed, pos |-> rng_pos]

\* random.seed(a=seed, version=2): the stream of `seed`, from its start
random_seed(seed) == [seed |-> seed, pos |-> 0]

GenerateArguments ==
  [fullCsv : {FALSE}, count : 1..MaxCount, opsLimit : {1}, bytecodeLimit : {0},
   dominant : {0}, push : {1}, cleanStack : {FALSE}, randomizePush : {FALSE},
   randomizeOpsLimit : BOOLEAN]

RECURSIVE ProgramsOf(_)
ProgramsOf(calls) ==
  IF calls = <<>> THEN 0 ELSE calls[1].args.count + ProgramsOf(Tail(calls))

\* what generate writes to STDOUT: the csv rows, or the bytecodes
Output(fullCsv, codes) ==
  IF fullCsv
    THEN << <<"program_id", "bytecode">> >> \o [i \in DOMAIN codes |-> <<i - 1, codes[i]>>]
    ELSE codes

InitDet ==
  /\ \E seed \in Seeds : Seeded(seed)
  /\ MarginalIdle /\ ValidationIdle
  /\ g_pc = "idle" /\ g_args = <<>> /\ g_i = 0 /\ g_programs = <<>>
  /\ g_first = TRUE /\ history = <<>>

\* ProgramGenerator(seed): __init__ seeds the random module again
Construct ==
  /\ g_pc = "idle"
  /\ history # <<>>
  /\ ProgramsOf(history) < MaxPrograms
  /\ \E seed \in Seeds :
       /\ rng_seed' = random_seed(seed).seed
       /\ rng_pos' = random_seed(seed).pos
  /\ g_first' = TRUE
  /\ UNCHANGED <<tape, g_pc, g_args, g_i, g_programs, history>>
  /\ UNCHANGED <<mvars, vvars>>

\* lines 65-70: generate is entered
GenerateCall ==
  /\ g_pc = "idle"
  /\ \E a \in GenerateArguments :
       /\ ProgramsOf(history) + a.count <= MaxPrograms
       /\ g_args' = [args |-> a,
                     opsLimitMax |-> IF a.opsLimit = 0 /\ a.bytecodeLimit = 0
                                       THEN DefaultOpsLimit ELSE a.opsLimit,
                     seed |-> rng_seed, start |-> rng_pos, first |-> g_first]
  /\ g_i' = 0
  /\ g_programs' = <<>>
  /\ g_pc' = "for"
  /\ UNCHANGED <<g_first, history>>
  /\ UNCHANGED <<mvars, rvars, vvars>>

\* lines 71-77: the for loop draws opsLimit, or takes it, and calls
\* _generate_random_arithmetic
ForBody ==
  /\ g_pc = "for"
  /\ g_i < g_args.args.count
  /\ IF g_args.args.randomizeOpsLimit
       THEN \E r \in 0..(g_args.opsLimitMax - 1) :
              /\ Draw(<< <<r, g_args.opsLimitMax>> >>)
              /\ opsLimit' = 1 + r
       ELSE /\ opsLimit' = g_args.opsLimitMax
            /\ UNCHANGED rvars
  /\ bytecodeLimit' = g_args.args.bytecodeLimit
  /\ dominant' = g_args.args.dominant
  /\ pushMax' = g_args.args.push
  /\ cleanStack' = g_args.args.cleanStack
  /\ randomizePush' = g_args.args.randomizePush
  /\ v_pc' = "call"
  /\ g_pc' = "in_call"
  /\ UNCHANGED <<bytecode, ops_count, previous_nreturns, iters, start_pos>>
  /\ UNCHANGED <<g_args, g_i, g_programs, g_first, history>>
  /\ UNCHANGED mvars

\* line 78: programs.append(program)
Collect ==
  /\ g_pc = "in_call"
  /\ v_pc = "returned"
  /\ g_programs' = Append(g_programs, bytecode)
  /\ g_i' = g_i + 1
  /\ g_pc' = "for"
  /\ v_pc' = "idle" /\ opsLimit' = 0 /\ bytecodeLimit' = 0 /\ dominant' = 0 /\ pushMax' = 0
  /\ cleanStack' = FALSE /\ randomizePush' = FALSE /\ bytecode' = <<>> /\ ops_count' = 0
  /\ previous_nreturns' = 0 /\ iters' = 0 /\ start_pos' = 0
  /\ UNCHANGED <<g_args, g_first, history>>
  /\ UNCHANGED <<mvars, rvars>>

\* lines 80-94: the programs are written out and generate returns
GenerateReturn ==
  /\ g_pc = "for"
  /\ g_i = g_args.args.count
  /\ history' = Append(history,
                  [seed |-> g_args.seed, args |-> g_args.args, first |-> g_args.first,
                   start |-> g_args.start,
                   draws |-> SubSeq(tape[rng_seed], g_args.start + 1, rng_pos),
                   output |-> Output(g_args.args.fullCsv, g_programs)])
  /\ g_first' = FALSE
  /\ g_pc' = "idle"
  /\ g_args' = <<>> /\ g_i' = 0 /\ g_programs' = <<>>
  /\ UNCHANGED <<mvars, rvars, vvars>>

NextDet ==
  Construct \/ GenerateCall \/ ForBody \/ Enter \/ Iteration \/ Return \/ Collect
    \/ GenerateReturn

SpecDet == InitDet /\ [][NextDet]_vars

(***************************************************************************)
(* Determinism (checked under SpecDet)                                     *)
(***************************************************************************)
SameCall(c1, c2) == c1.seed = c2.seed /\ c1.args = c2.args

\* C10 (as stated): two generate calls with the same seed and the same
\* parameters make the same draws and write the same output, and begin at the
\* same position of the stream.
C10_SameSeedSameOutput ==
  \A i, j \in DOMAIN history :
    SameCall(history[i], history[j]) =>
      /\ history[i].output = history[j].output
      /\ history[i].draws = history[j].draws
      /\ history[i].start = history[j].start

\* C10 (amended): two generate calls with the same parameters, each the
\* first call made after seeding with the same seed, begin at the start of the
\* stream, make the same draws and write the same output.
C10_FirstCallsAgree ==
  \A i, j \in DOMAIN history :
    (SameCall(history[i], history[j]) /\ history[i].first /\ history[j].first) =>
      /\ history[i].output = history[j].output
      /\ history[i].draws = history[j].draws
      /\ history[i].start = 0 /\ history[j].start = 0

\* two generators seeded alike have each made their first call, with draws
C10_Witness ==
  /\ Len(history) = 2
  /\ SameCall(history[1], history[2])
  /\ history[1].first /\ history[2].first
  /\ Len(history[1].draws) > 1
  /\ history[1].output = history[2].output

====
